---- MODULE Spec2Model ----
(***************************************************************************)
(* TAPS probability prediction engine (backend/app/services/prediction.py) *)
(* over the parking_lots and taps_sightings tables.                        *)
(*                                                                         *)
(* Numbers.  Every probability, factor and confidence is a decimal kept in *)
(* units of 0.00001 (Unit = 1.0), so that the sums and products of the     *)
(* engine are computed exactly; the weights are kept in hundredths.        *)
(* Time.  A datetime is the number of minutes since 2024-01-01T00:00Z, a   *)
(* Monday; the calendar fields are those of the year 2024.                 *)
(***************************************************************************)
EXTENDS Integers, Sequences, FiniteSets, TLC

VARIABLES
    parking_lots,    \* rows of the parking_lots table: [id, name, code]
    taps_sightings,  \* rows of the taps_sightings table in id order
    now,             \* datetime.now(timezone.utc)
    pc,              \* position of the running predict() call
    req,             \* arguments of the running predict() call
    loc,             \* local variables of the running predict() call
    queries,         \* sighting-count queries the running call has issued
    response,        \* PredictionResponse returned by the last call
    error,           \* exception raised by the last call
    http_status,     \* status code the prediction endpoint answered with
    probe,           \* last direct application of one engine function
    parking_sessions,\* rows of the parking_sessions table in id order
    notifications,   \* rows of the notifications table in id order
    votes,           \* rows of the votes table in id order; None once deleted
    reqs,            \* the requests being handled, one per worker slot
    observer         \* the history a predict call started with, and one
                     \* earlier call with its result

vars == <<parking_lots, taps_sightings, now, pc, req, loc, queries,
          response, error, http_status, probe, parking_sessions,
          notifications, votes, reqs, observer>>

engineVars == <<parking_lots, taps_sightings, now, pc, req, loc, queries,
                response, error, http_status>>

appVars == <<parking_sessions, notifications, votes, reqs, observer>>

(***************************************************************************)
(* Bounds of the model                                                     *)
(***************************************************************************)
MaxSightings == 3

MaxCount == 16

\* parking sessions ever created
MaxSessions == 2

\* sightings reported through the API
MaxReports == 2

\* times the clock advances
MaxTicks == 2

\* votes ever created
MaxVotes == 2

\* notifications in the table when the devices start reading them
MaxNotifications == 2

(***************************************************************************)
(* Decimal numbers                                                         *)
(***************************************************************************)
Unit == 100000

Dec(thousandths) == thousandths * 100

Min(a, b) == IF a <= b THEN a ELSE b

Max(a, b) == IF a >= b THEN a ELSE b

\* round(x, 3): to the nearest multiple of 0.001, ties to the even one
Round3(x) ==
    LET q == x \div 100
        r == x % 100
    IN  IF r < 50 THEN q * 100
        ELSE IF r > 50 THEN (q + 1) * 100
        ELSE IF q % 2 = 0 THEN q * 100
        ELSE (q + 1) * 100

(***************************************************************************)
(* datetime                                                                *)
(***************************************************************************)
Ts(dayIndex, hour, minute) == (dayIndex * 24 + hour) * 60 + minute

\* timedelta(hours=h), timedelta(days=d)
Hours(h) == h * 60

Days(d) == d * 24 * 60

DayIndex(dt) == dt \div (24 * 60)

\* dt.hour
Hour(dt) == (dt \div 60) % 24

\* dt.weekday(): 0 = Monday .. 6 = Sunday
Weekday(dt) == DayIndex(dt) % 7

\* first day index of each month of 2024, and of January 2025
CumDays == <<0, 31, 60, 91, 121, 152, 182, 213, 244, 274, 305, 335, 366>>

\* dt.month
Month(dt) ==
    CHOOSE m \in 1..12 :
        CumDays[m] <= DayIndex(dt) /\ DayIndex(dt) < CumDays[m + 1]

\* dt.day
Day(dt) == DayIndex(dt) - CumDays[Month(dt)] + 1

\* the day index of a (month, day) of 2024
DayOfYear(month, day) == CumDays[month] + day - 1

\* extract('dow', column) of the database: 0 = Sunday .. 6 = Saturday
ExtractDow(dt) == (Weekday(dt) + 1) % 7

(***************************************************************************)
(* PredictionService: constants                                            *)
(***************************************************************************)
\* WEIGHTS with time_of_day raised to 0.35
WEIGHTS_heavy_time ==
    [time_of_day |-> 35, day_of_week |-> 20, historical |-> 20,
     recent_sightings |-> 20, academic_calendar |-> 15]

\* weights in hundredths
WEIGHTS ==
    [time_of_day |-> 25, day_of_week |-> 20, historical |-> 20,
     recent_sightings |-> 20, academic_calendar |-> 15]

ACADEMIC_CALENDAR ==
    [fall_start |-> <<9, 25>>,  fall_end |-> <<12, 13>>,
     winter_start |-> <<1, 6>>, winter_end |-> <<3, 21>>,
     spring_start |-> <<3, 31>>, spring_end |-> <<6, 13>>,
     fall_finals |-> <<<<12, 7>>, <<12, 13>>>>,
     winter_finals |-> <<<<3, 15>>, <<3, 21>>>>,
     spring_finals |-> <<<<6, 7>>, <<6, 13>>>>]

(***************************************************************************)
(* PredictionService: factor functions                                     *)
(***************************************************************************)
\* TimeOfDayFactor with an evening slope of 0.16 instead of 0.11
TimeOfDayFactorSteep(dt) ==
    LET hour == Hour(dt)
    IN  IF hour < 6 \/ hour >= 22 THEN Dec(50)
        ELSE IF 6 <= hour /\ hour < 8 THEN Dec(200) + (hour - 6) * Dec(150)
        ELSE IF 8 <= hour /\ hour < 17
             THEN IF 12 <= hour /\ hour < 13 THEN Dec(700) ELSE Dec(850)
        ELSE Dec(600) - (hour - 17) * Dec(160)

\* TimeOfDayFactor with the lunch dip lasting through hour 13
TimeOfDayFactorLongLunch(dt) ==
    LET hour == Hour(dt)
    IN  IF hour < 6 \/ hour >= 22 THEN Dec(50)
        ELSE IF 6 <= hour /\ hour < 8 THEN Dec(200) + (hour - 6) * Dec(150)
        ELSE IF 8 <= hour /\ hour < 17
             THEN IF 12 <= hour /\ hour <= 13 THEN Dec(700) ELSE Dec(850)
        ELSE Dec(600) - (hour - 17) * Dec(110)

TimeOfDayFactor(dt) ==
    LET hour == Hour(dt)
    IN  IF hour < 6 \/ hour >= 22 THEN Dec(50)
        ELSE IF 6 <= hour /\ hour < 8 THEN Dec(200) + (hour - 6) * Dec(150)
        ELSE IF 8 <= hour /\ hour < 17
             THEN IF 12 <= hour /\ hour < 13 THEN Dec(700) ELSE Dec(850)
        ELSE Dec(600) - (hour - 17) * Dec(110)

weekday_factors ==
    [d \in 0..6 |->
        CASE d = 0 -> Dec(850)
          [] d = 1 -> Dec(900)
          [] d = 2 -> Dec(850)
          [] d = 3 -> Dec(800)
          [] d = 4 -> Dec(700)
          [] d = 5 -> Dec(150)
          [] d = 6 -> Dec(100)]

\* DayOfWeekFactor that numbers the days from Sunday, as the database does
DayOfWeekFactorFromSunday(dt) ==
    LET day == ExtractDow(dt)
    IN  IF day \in DOMAIN weekday_factors THEN weekday_factors[day]
        ELSE Dec(500)

DayOfWeekFactor(dt) ==
    LET day == Weekday(dt)
    IN  IF day \in DOMAIN weekday_factors THEN weekday_factors[day]
        ELSE Dec(500)

\* HistoricalFromCount with a step of 0.06 instead of 0.065
HistoricalFromCountSlow(count) ==
    IF count = 0 THEN Dec(300) ELSE Min(Dec(300) + count * Dec(60), Dec(950))

\* the normalisation of the historical count
HistoricalFromCount(count) ==
    IF count = 0 THEN Dec(300) ELSE Min(Dec(300) + count * Dec(65), Dec(950))

\* RecentFromCounts without the 2-hour short-circuit
RecentFromCountsNoShortCircuit(very_recent, recent) ==
    IF recent = 0 THEN Dec(400)
    ELSE Min(Dec(500) + recent * Dec(100), Dec(850))

\* the recent-sightings factor from what its queries return; the 24-hour
\* count is only looked at when the 2-hour count is 0
RecentFromCounts(very_recent, recent) ==
    IF very_recent > 0 THEN Dec(950)
    ELSE IF recent = 0 THEN Dec(400)
    ELSE Min(Dec(500) + recent * Dec(100), Dec(850))

\* in_range that leaves the start day out
in_range_open_start(month, day, start, end) ==
    LET start_m == start[1]
        start_d == start[2]
        end_m   == end[1]
        end_d   == end[2]
    IN  IF start_m <= end_m
        THEN IF month < start_m \/ month > end_m THEN FALSE
             ELSE IF month = start_m /\ day <= start_d THEN FALSE
             ELSE IF month = end_m /\ day > end_d THEN FALSE
             ELSE TRUE
        ELSE IF month >= start_m \/ month <= end_m
             THEN IF month = start_m /\ day <= start_d THEN FALSE
                  ELSE IF month = end_m /\ day > end_d THEN FALSE
                  ELSE TRUE
             ELSE FALSE

in_range(month, day, start, end) ==
    LET start_m == start[1]
        start_d == start[2]
        end_m   == end[1]
        end_d   == end[2]
    IN  IF start_m <= end_m
        THEN IF month < start_m \/ month > end_m THEN FALSE
             ELSE IF month = start_m /\ day < start_d THEN FALSE
             ELSE IF month = end_m /\ day > end_d THEN FALSE
             ELSE TRUE
        ELSE IF month >= start_m \/ month <= end_m
             THEN IF month = start_m /\ day < start_d THEN FALSE
                  ELSE IF month = end_m /\ day > end_d THEN FALSE
                  ELSE TRUE
             ELSE FALSE

FinalsKeys == {"fall_finals", "winter_finals", "spring_finals"}

Quarters ==
    {<<"fall_start", "fall_end">>, <<"winter_start", "winter_end">>,
     <<"spring_start", "spring_end">>}

AcademicCalendarFactor(dt) ==
    LET month == Month(dt)
        day   == Day(dt)
    IN  IF \E k \in FinalsKeys :
               in_range(month, day, ACADEMIC_CALENDAR[k][1],
                        ACADEMIC_CALENDAR[k][2])
        THEN Dec(950)
        ELSE IF \E q \in Quarters :
                    in_range(month, day, ACADEMIC_CALENDAR[q[1]],
                             ACADEMIC_CALENDAR[q[2]])
        THEN Dec(750)
        ELSE Dec(350)

\* RiskLevel with the thresholds belonging to the lower tier
RiskLevelInclusive(probability) ==
    IF probability <= Dec(300) THEN "LOW"
    ELSE IF probability <= Dec(600) THEN "MEDIUM"
    ELSE "HIGH"

RiskLevel(probability) ==
    IF probability < Dec(300) THEN "LOW"
    ELSE IF probability < Dec(600) THEN "MEDIUM"
    ELSE "HIGH"

\* Confidence without the cap on the recent contribution
ConfidenceUncapped(historical_count, recent_count) ==
    LET base == Dec(400)
        historical_contrib == Min(historical_count * Dec(20), Dec(300))
        recent_contrib == recent_count * Dec(50)
    IN  Min(base + historical_contrib + recent_contrib, Dec(950))

Confidence(historical_count, recent_count) ==
    LET base == Dec(400)
        historical_contrib == Min(historical_count * Dec(20), Dec(300))
        recent_contrib == Min(recent_count * Dec(50), Dec(200))
    IN  Min(base + historical_contrib + recent_contrib, Dec(950))

\* WeightedSum that weighs the absence of recent sightings
WeightedSumQuietLot(time_f, day_f, historical_f, recent_f, calendar_f) ==
    (time_f * WEIGHTS["time_of_day"]
     + day_f * WEIGHTS["day_of_week"]
     + historical_f * WEIGHTS["historical"]
     + (Unit - recent_f) * WEIGHTS["recent_sightings"]
     + calendar_f * WEIGHTS["academic_calendar"]) \div 100

\* the weighted combination of the five factors
WeightedSum(time_f, day_f, historical_f, recent_f, calendar_f) ==
    (time_f * WEIGHTS["time_of_day"]
     + day_f * WEIGHTS["day_of_week"]
     + historical_f * WEIGHTS["historical"]
     + recent_f * WEIGHTS["recent_sightings"]
     + calendar_f * WEIGHTS["academic_calendar"]) \div 100

Clamp(probability) == Max(0, Min(Unit, probability))

(***************************************************************************)
(* The tables and the requests of the model                                *)
(***************************************************************************)
None == [none |-> TRUE]

Lots ==
    {[id |-> 1, name |-> "Hutchinson Parking Structure", code |-> "HUTCH",
      is_active |-> TRUE],
     [id |-> 2, name |-> "Quad Parking Structure", code |-> "QUAD",
      is_active |-> TRUE]}

\* lot ids a request may carry; 3 is the id of no lot
LotIds == {1, 2, 3}

\* Monday 2024-06-17 09:00
NowInit == Ts(168, 9, 0)

\* reported_at of the sightings of a history: Friday 2024-03-01 12:00,
\* Monday 06-03 10:00, Sunday 06-09 12:00, Monday 06-10 09:30 and 15:00,
\* Wednesday 06-12 08:00
SightingTimes ==
    {Ts(60, 12, 0), Ts(154, 10, 0), Ts(160, 12, 0), Ts(161, 9, 30),
     Ts(161, 15, 0), Ts(163, 8, 0)}

\* timestamps of the requests: 10:00 on each day of the week from Monday
\* 2024-06-10 to Sunday 06-16, Tuesday 01-16 10:00, Monday 06-10 21:45,
\* Monday 07-15 02:30
PredictTimes ==
    {Ts(d, 10, 0) : d \in 161..167}
        \cup {Ts(15, 10, 0), Ts(161, 21, 45), Ts(196, 2, 30)}

\* the timestamp argument: a datetime or None
TimestampArgs == {[value |-> t] : t \in PredictTimes} \cup {None}

\* the sightings of a history are anonymous: reported_by_device_id is null
SightingRows == [parking_lot_id : {l.id : l \in Lots},
                 reported_by_device_id : {None},
                 reported_at : SightingTimes]

\* the worker slots that handle requests concurrently
Slots == {1, 2}

Idle == [op |-> "idle"]

\* reported_at defaults to the time of the insert, so it never decreases
\* along the ids and never exceeds the current time
Histories ==
    {h \in UNION {[1..n -> SightingRows] : n \in 0..MaxSightings} :
        /\ \A i \in DOMAIN h : h[i].reported_at <= NowInit
        /\ \A i, j \in DOMAIN h :
              i < j => h[i].reported_at <= h[j].reported_at}

(***************************************************************************)
(* Queries                                                                 *)
(***************************************************************************)
\* SelectLot that falls back to some lot when the id matches none
SelectLotOrFirst(db_lots, parking_lot_id) ==
    IF \E l \in db_lots : l.id = parking_lot_id
    THEN CHOOSE l \in db_lots : l.id = parking_lot_id
    ELSE CHOOSE l \in db_lots : TRUE

\* select(ParkingLot).where(ParkingLot.id == parking_lot_id)
\*     .scalar_one_or_none()
SelectLot(db_lots, parking_lot_id) ==
    IF \E l \in db_lots : l.id = parking_lot_id
    THEN CHOOSE l \in db_lots : l.id = parking_lot_id
    ELSE None

\* count of the sightings at the lot since start_date whose day of the
\* week, as the database numbers it, equals dt.weekday()
HistoricalQuery(db, parking_lot_id, dt) ==
    LET start_date == dt - Days(90)
    IN  Cardinality({i \in DOMAIN db :
            /\ db[i].parking_lot_id = parking_lot_id
            /\ db[i].reported_at >= start_date
            /\ ExtractDow(db[i].reported_at) = Weekday(dt)})

\* CountSince over the sightings of every lot
CountSinceAnyLot(db, parking_lot_id, since) ==
    Cardinality({i \in DOMAIN db : db[i].reported_at >= since})

\* count of the sightings at the lot with reported_at >= since
CountSince(db, parking_lot_id, since) ==
    Cardinality({i \in DOMAIN db :
        /\ db[i].parking_lot_id = parking_lot_id
        /\ db[i].reported_at >= since})

(***************************************************************************)
(* PredictionService.predict, one step per awaited query                   *)
(***************************************************************************)
InRange01(x) == 0 <= x /\ x <= Unit

\* the ge=0.0, le=1.0 constraints of PredictionFactors and
\* PredictionResponse
Validates(r) ==
    /\ InRange01(r.factors.time_of_day_factor)
    /\ InRange01(r.factors.day_of_week_factor)
    /\ InRange01(r.factors.historical_factor)
    /\ InRange01(r.factors.recent_sightings_factor)
    /\ InRange01(r.factors.academic_calendar_factor)
    /\ InRange01(r.probability)
    /\ InRange01(r.confidence)

\* a request arrives; timestamp may be None
PredictCall(parking_lot_id, timestamp) ==
    /\ pc = "idle"
    /\ pc' = "lookup"
    /\ req' = [parking_lot_id |-> parking_lot_id, timestamp |-> timestamp]
    /\ loc' = None
    /\ queries' = <<>>
    /\ response' = None
    /\ error' = "none"
    /\ http_status' = "none"
    /\ UNCHANGED <<parking_lots, taps_sightings, now, probe>>
    /\ observer' = [observer EXCEPT !.at_call = taps_sightings]
    /\ UNCHANGED <<parking_sessions, notifications, votes, reqs>>

\* the lot lookup, then the two factors of the timestamp alone
LookupLot ==
    /\ pc = "lookup"
    /\ LET parking_lot == SelectLot(parking_lots, req.parking_lot_id)
           timestamp == IF req.timestamp = None THEN now
                        ELSE req.timestamp.value
       IN  IF parking_lot = None
           THEN /\ pc' = "raised"
                /\ error' = "ValueError"
                /\ UNCHANGED loc
           ELSE /\ pc' = "historical"
                /\ loc' = [parking_lot |-> parking_lot,
                           timestamp |-> timestamp,
                           time_factor |-> TimeOfDayFactor(timestamp),
                           day_factor |-> DayOfWeekFactor(timestamp)]
                /\ UNCHANGED error
    /\ UNCHANGED <<parking_lots, taps_sightings, now, req, queries,
                   response, http_status, probe>>
    /\ UNCHANGED appVars

\* HistoricalStep that also counts the sightings of the hour window
HistoricalStepHourWindow ==
    /\ pc = "historical"
    /\ LET count == HistoricalQuery(taps_sightings, req.parking_lot_id,
                                    loc.timestamp)
       IN  loc' = loc @@ [count |-> count,
                          historical_factor |-> HistoricalFromCount(count)]
    /\ queries' = queries \o <<"historical_90d_dow", "historical_hours">>
    /\ pc' = "recent_2h"
    /\ UNCHANGED <<parking_lots, taps_sightings, now, req, response, error,
                   http_status, probe>>
    /\ UNCHANGED appVars

\* _calculate_historical_factor
HistoricalStep ==
    /\ pc = "historical"
    /\ LET count == HistoricalQuery(taps_sightings, req.parking_lot_id,
                                    loc.timestamp)
       IN  loc' = loc @@ [count |-> count,
                          historical_factor |-> HistoricalFromCount(count)]
    /\ queries' = Append(queries, "historical_90d_dow")
    /\ pc' = "recent_2h"
    /\ UNCHANGED <<parking_lots, taps_sightings, now, req, response, error,
                   http_status, probe>>
    /\ UNCHANGED appVars

\* what predict does between the recent-sightings factor and its next query
Combine(l) ==
    LET calendar_factor == AcademicCalendarFactor(l.timestamp)
        weighted == WeightedSum(l.time_factor, l.day_factor,
                                l.historical_factor, l.recent_factor,
                                calendar_factor)
    IN  l @@ [calendar_factor |-> calendar_factor,
              weighted |-> weighted,
              probability |-> Clamp(weighted)]

\* Recent2hStep that goes on to the 24-hour query whatever it counted
Recent2hStepNoReturn ==
    /\ pc = "recent_2h"
    /\ LET two_hours_ago == loc.timestamp - Hours(2)
           very_recent == CountSince(taps_sightings, req.parking_lot_id,
                                     two_hours_ago)
       IN  /\ loc' = loc @@ [very_recent |-> very_recent]
           /\ pc' = "recent_24h"
    /\ queries' = Append(queries, "recent_2h")
    /\ UNCHANGED <<parking_lots, taps_sightings, now, req, response, error,
                   http_status, probe>>
    /\ UNCHANGED appVars

\* Recent2hStep whose first window is half an hour
Recent2hStepHalfHour ==
    /\ pc = "recent_2h"
    /\ LET half_hour_ago == loc.timestamp - 30
           very_recent == CountSince(taps_sightings, req.parking_lot_id,
                                     half_hour_ago)
       IN  IF very_recent > 0
           THEN /\ loc' = Combine(loc @@
                              [very_recent |-> very_recent,
                               recent_factor |->
                                   RecentFromCounts(very_recent, 0)])
                /\ pc' = "confidence_90d"
           ELSE /\ loc' = loc @@ [very_recent |-> very_recent]
                /\ pc' = "recent_24h"
    /\ queries' = Append(queries, "recent_2h")
    /\ UNCHANGED <<parking_lots, taps_sightings, now, req, response, error,
                   http_status, probe>>
    /\ UNCHANGED appVars

\* _calculate_recent_sightings_factor, the 2-hour query
Recent2hStep ==
    /\ pc = "recent_2h"
    /\ LET two_hours_ago == loc.timestamp - Hours(2)
           very_recent == CountSince(taps_sightings, req.parking_lot_id,
                                     two_hours_ago)
       IN  IF very_recent > 0
           THEN /\ loc' = Combine(loc @@
                              [very_recent |-> very_recent,
                               recent_factor |->
                                   RecentFromCounts(very_recent, 0)])
                /\ pc' = "confidence_90d"
           ELSE /\ loc' = loc @@ [very_recent |-> very_recent]
                /\ pc' = "recent_24h"
    /\ queries' = Append(queries, "recent_2h")
    /\ UNCHANGED <<parking_lots, taps_sightings, now, req, response, error,
                   http_status, probe>>
    /\ UNCHANGED appVars

\* _calculate_recent_sightings_factor, the 24-hour query
Recent24hStep ==
    /\ pc = "recent_24h"
    /\ LET one_day_ago == loc.timestamp - Hours(24)
           recent == CountSince(taps_sightings, req.parking_lot_id,
                                one_day_ago)
       IN  loc' = Combine(loc @@
                     [recent |-> recent,
                      recent_factor |->
                          RecentFromCounts(loc.very_recent, recent)])
    /\ queries' = Append(queries, "recent_24h")
    /\ pc' = "confidence_90d"
    /\ UNCHANGED <<parking_lots, taps_sightings, now, req, response, error,
                   http_status, probe>>
    /\ UNCHANGED appVars

\* Confidence90dStep that reuses the weekday-filtered query of the
\* historical factor
Confidence90dStepFiltered ==
    /\ pc = "confidence_90d"
    /\ loc' = loc @@
           [historical_count |->
                HistoricalQuery(taps_sightings, req.parking_lot_id,
                                loc.timestamp)]
    /\ queries' = Append(queries, "confidence_90d")
    /\ pc' = "confidence_24h"
    /\ UNCHANGED <<parking_lots, taps_sightings, now, req, response, error,
                   http_status, probe>>
    /\ UNCHANGED appVars

\* the 90-day count of the confidence
Confidence90dStep ==
    /\ pc = "confidence_90d"
    /\ LET ninety_days_ago == loc.timestamp - Days(90)
       IN  loc' = loc @@
               [historical_count |->
                    CountSince(taps_sightings, req.parking_lot_id,
                               ninety_days_ago)]
    /\ queries' = Append(queries, "confidence_90d")
    /\ pc' = "confidence_24h"
    /\ UNCHANGED <<parking_lots, taps_sightings, now, req, response, error,
                   http_status, probe>>
    /\ UNCHANGED appVars

BuildResponse(l) ==
    [parking_lot_id |-> l.parking_lot.id,
     parking_lot_name |-> l.parking_lot.name,
     parking_lot_code |-> l.parking_lot.code,
     probability |-> Round3(l.probability),
     risk_level |-> RiskLevel(l.probability),
     predicted_for |-> l.timestamp,
     factors |-> [time_of_day_factor |-> Round3(l.time_factor),
                  day_of_week_factor |-> Round3(l.day_factor),
                  historical_factor |-> Round3(l.historical_factor),
                  recent_sightings_factor |-> Round3(l.recent_factor),
                  academic_calendar_factor |-> Round3(l.calendar_factor),
                  weather_factor |-> None],
     confidence |-> Round3(l.confidence)]

\* Confidence24hStep that also records the prediction as a sighting
Confidence24hStepRecording ==
    /\ pc = "confidence_24h"
    /\ LET one_day_ago == loc.timestamp - Hours(24)
           recent_count == CountSince(taps_sightings, req.parking_lot_id,
                                      one_day_ago)
           l == loc @@ [recent_count |-> recent_count,
                        confidence |->
                            Confidence(loc.historical_count, recent_count)]
       IN  /\ loc' = l
           /\ IF Validates(BuildResponse(l))
              THEN /\ response' = BuildResponse(l)
                   /\ pc' = "done"
                   /\ UNCHANGED error
              ELSE /\ error' = "ValidationError"
                   /\ pc' = "raised"
                   /\ UNCHANGED response
    /\ queries' = Append(queries, "confidence_24h")
    /\ taps_sightings' =
           IF Len(taps_sightings) < MaxSightings
           THEN Append(taps_sightings,
                       [parking_lot_id |-> req.parking_lot_id,
                        reported_by_device_id |-> None,
                        reported_at |-> now])
           ELSE taps_sightings
    /\ UNCHANGED <<parking_lots, now, req, http_status, probe>>
    /\ UNCHANGED appVars

\* the 24-hour count of the confidence, the confidence and the response
Confidence24hStep ==
    /\ pc = "confidence_24h"
    /\ LET one_day_ago == loc.timestamp - Hours(24)
           recent_count == CountSince(taps_sightings, req.parking_lot_id,
                                      one_day_ago)
           l == loc @@ [recent_count |-> recent_count,
                        confidence |->
                            Confidence(loc.historical_count, recent_count)]
       IN  /\ loc' = l
           /\ IF Validates(BuildResponse(l))
              THEN /\ response' = BuildResponse(l)
                   /\ pc' = "done"
                   /\ UNCHANGED error
              ELSE /\ error' = "ValidationError"
                   /\ pc' = "raised"
                   /\ UNCHANGED response
    /\ queries' = Append(queries, "confidence_24h")
    /\ UNCHANGED <<parking_lots, taps_sightings, now, req, http_status,
                   probe>>
    /\ UNCHANGED appVars

\* get_prediction / predict_for_time: the endpoint answers with the
\* prediction, or maps ValueError to 404; any other exception is a 500
Return ==
    /\ pc \in {"done", "raised"}
    /\ pc' = "idle"
    /\ http_status' = IF pc = "done" THEN "200"
                      ELSE IF error = "ValueError" THEN "404"
                      ELSE "500"
    /\ UNCHANGED <<parking_lots, taps_sightings, now, req, loc, queries,
                   response, error, probe>>
    /\ UNCHANGED appVars

NoProbe == [fn |-> "none"]

Init ==
    /\ parking_lots = Lots
    /\ taps_sightings \in Histories
    /\ now = NowInit
    /\ pc = "idle"
    /\ req = None
    /\ loc = None
    /\ queries = <<>>
    /\ response = None
    /\ error = "none"
    /\ http_status = "none"
    /\ probe = NoProbe
    /\ parking_sessions = <<>>
    /\ notifications = <<>>
    /\ votes = <<>>
    /\ reqs = [s \in Slots |-> Idle]
    /\ observer = [at_call |-> <<>>, seen |-> None]

Next ==
    \/ \E id \in LotIds, t \in TimestampArgs : PredictCall(id, t)
    \/ LookupLot
    \/ HistoricalStep
    \/ Recent2hStep
    \/ Recent24hStep
    \/ Confidence90dStep
    \/ Confidence24hStep
    \/ Return

Spec == Init /\ [][Next]_vars

(***************************************************************************)
(* The engine's functions applied directly to bounded inputs, one          *)
(* application per behaviour                                               *)
(***************************************************************************)
\* every hour of Monday 2024-06-10, at the first and the last minute
HourTimes == {Ts(161, h, m) : h \in 0..23, m \in {0, 59}}

\* 10:00 on every day of 2024
YearTimes == {Ts(d, 10, 0) : d \in 0..365}

Counts == 0..MaxCount

\* the values each factor can take
TimeValues == {TimeOfDayFactor(t) : t \in HourTimes}

DayValues == {DayOfWeekFactor(t) : t \in YearTimes}

HistoricalValues == {HistoricalFromCount(c) : c \in Counts}

RecentValues == {RecentFromCounts(v, r) : v \in {0, 1}, r \in Counts}

CalendarValues == {AcademicCalendarFactor(t) : t \in YearTimes}

ApplyTimeOfDay ==
    /\ probe = NoProbe
    /\ \E dt \in HourTimes :
          probe' = [fn |-> "time_of_day", arg |-> dt,
                    ret |-> TimeOfDayFactor(dt)]
    /\ UNCHANGED engineVars
    /\ UNCHANGED appVars

ApplyDayOfWeek ==
    /\ probe = NoProbe
    /\ \E dt \in YearTimes :
          probe' = [fn |-> "day_of_week", arg |-> dt,
                    ret |-> DayOfWeekFactor(dt)]
    /\ UNCHANGED engineVars
    /\ UNCHANGED appVars

ApplyHistorical ==
    /\ probe = NoProbe
    /\ \E count \in Counts :
          probe' = [fn |-> "historical", arg |-> count,
                    ret |-> HistoricalFromCount(count)]
    /\ UNCHANGED engineVars
    /\ UNCHANGED appVars

\* the sightings of the last 2 hours are among those of the last 24 hours
ApplyRecent ==
    /\ probe = NoProbe
    /\ \E very_recent \in Counts, recent \in Counts :
          /\ very_recent <= recent
          /\ probe' = [fn |-> "recent_sightings",
                       arg |-> <<very_recent, recent>>,
                       ret |-> RecentFromCounts(very_recent, recent)]
    /\ UNCHANGED engineVars
    /\ UNCHANGED appVars

ApplyAcademicCalendar ==
    /\ probe = NoProbe
    /\ \E dt \in YearTimes :
          probe' = [fn |-> "academic_calendar", arg |-> dt,
                    ret |-> AcademicCalendarFactor(dt)]
    /\ UNCHANGED engineVars
    /\ UNCHANGED appVars

ApplyRiskLevel ==
    /\ probe = NoProbe
    /\ \E probability \in 0..Unit :
          probe' = [fn |-> "risk_level", arg |-> probability,
                    ret |-> RiskLevel(probability)]
    /\ UNCHANGED engineVars
    /\ UNCHANGED appVars

ApplyConfidence ==
    /\ probe = NoProbe
    /\ \E historical_count \in Counts, recent_count \in Counts :
          probe' = [fn |-> "confidence",
                    arg |-> <<historical_count, recent_count>>,
                    ret |-> Confidence(historical_count, recent_count)]
    /\ UNCHANGED engineVars
    /\ UNCHANGED appVars

ApplyCombine ==
    /\ probe = NoProbe
    /\ \E tf \in TimeValues, df \in DayValues, hf \in HistoricalValues,
          rf \in RecentValues, cf \in CalendarValues :
          probe' = [fn |-> "combine", arg |-> <<tf, df, hf, rf, cf>>,
                    weights |-> WEIGHTS,
                    weighted |-> WeightedSum(tf, df, hf, rf, cf),
                    ret |-> Clamp(WeightedSum(tf, df, hf, rf, cf))]
    /\ UNCHANGED engineVars
    /\ UNCHANGED appVars

\* the response predict builds from its locals, for every combination of
\* factor values
ApplyBuildResponse ==
    /\ probe = NoProbe
    /\ \E tf \in TimeValues, df \in DayValues, hf \in HistoricalValues,
          rf \in RecentValues, cf \in CalendarValues :
          probe' = [fn |-> "build_response", arg |-> <<tf, df, hf, rf, cf>>,
                    ret |-> BuildResponse(
                        [parking_lot |-> CHOOSE l \in Lots : l.id = 1,
                         timestamp |-> NowInit,
                         time_factor |-> tf, day_factor |-> df,
                         historical_factor |-> hf, recent_factor |-> rf,
                         calendar_factor |-> cf,
                         probability |->
                             Clamp(WeightedSum(tf, df, hf, rf, cf)),
                         confidence |-> Confidence(0, 0)])]
    /\ UNCHANGED engineVars
    /\ UNCHANGED appVars

FnInit ==
    /\ parking_lots = Lots
    /\ taps_sightings = <<>>
    /\ now = NowInit
    /\ pc = "idle"
    /\ req = None
    /\ loc = None
    /\ queries = <<>>
    /\ response = None
    /\ error = "none"
    /\ http_status = "none"
    /\ probe = NoProbe
    /\ parking_sessions = <<>>
    /\ notifications = <<>>
    /\ votes = <<>>
    /\ reqs = [s \in Slots |-> Idle]
    /\ observer = [at_call |-> <<>>, seen |-> None]

FnNext ==
    \/ ApplyTimeOfDay
    \/ ApplyDayOfWeek
    \/ ApplyHistorical
    \/ ApplyRecent
    \/ ApplyAcademicCalendar
    \/ ApplyRiskLevel
    \/ ApplyConfidence
    \/ ApplyCombine
    \/ ApplyBuildResponse

FnSpec == FnInit /\ [][FnNext]_vars

(***************************************************************************)
(* The API handlers, one step per awaited statement.  Every request runs   *)
(* in a worker slot with a database session of its own; a request is seen  *)
(* by the others only through the rows it has committed.  The caller is an *)
(* authenticated device with a verified email.                             *)
(***************************************************************************)
Devices == {1, 2}

\* the record of slot s with some fields replaced
Goto(s, fields) == [reqs EXCEPT ![s] = fields @@ reqs[s]]

\* the handler of slot s returns, or raises HTTPException(status), or an
\* unhandled exception for status "500"; its locals are dropped
Done(s, status, body) ==
    [reqs EXCEPT ![s] = body @@ [op |-> reqs[s].op, device |-> reqs[s].device,
                                 pc |-> "responded", status |-> status]]

Raise(s, status) == Done(s, status, <<>>)

\* ids of the sessions of a device with checked_out_at IS NULL
ActiveSessionsOf(db, device_id) ==
    {i \in DOMAIN db : /\ db[i].device_id = device_id
                       /\ db[i].checked_out_at = None}

\* ids of the sessions at a lot with checked_out_at IS NULL
ActiveSessionsAt(db, parking_lot_id) ==
    {i \in DOMAIN db : /\ db[i].parking_lot_id = parking_lot_id
                       /\ db[i].checked_out_at = None}

\* the elements of a set of ids in increasing order
RECURSIVE InIdOrder(_)
InIdOrder(ids) ==
    IF ids = {} THEN <<>>
    ELSE LET first == CHOOSE i \in ids : \A j \in ids : i <= j
         IN  <<first>> \o InIdOrder(ids \ {first})

\* datetime.now(timezone.utc) moves on
Tick ==
    /\ now < NowInit + MaxTicks * 5
    /\ now' = now + 5
    /\ UNCHANGED <<parking_lots, taps_sightings, pc, req, loc, queries,
                   response, error, http_status, probe, appVars>>

\* a worker slot takes a request when it is free; of the free slots the
\* lowest takes it
Free(s) == reqs[s] = Idle /\ \A r \in Slots : r < s => reqs[r] # Idle

\* the request as it enters its handler
Request(op, device) == [op |-> op, device |-> device, status |-> "none"]

\* the handler of slot s, entered with request r, moves to the fields given
Enter(s, r, fields) == [reqs EXCEPT ![s] = fields @@ r]

\* POST /parking/checkin: the lot must exist and be active
CheckInLookupLot(s, device, parking_lot_id) ==
    /\ Free(s)
    /\ LET r == Request("check_in", device)
           lot == SelectLot(parking_lots, parking_lot_id)
       IN  reqs' =
               IF lot = None
               THEN Enter(s, r, [pc |-> "responded", status |-> "404"])
               ELSE IF ~ lot.is_active
               THEN Enter(s, r, [pc |-> "responded", status |-> "400"])
               ELSE Enter(s, r, [pc |-> "select_active", lot |-> lot])
    /\ UNCHANGED <<engineVars, probe, parking_sessions, notifications,
                   votes, observer>>

\* check_in: the active session of the device, scalar_one_or_none()
CheckInSelectActive(s) ==
    /\ reqs[s].op = "check_in"
    /\ reqs[s].pc = "select_active"
    /\ LET rows == ActiveSessionsOf(parking_sessions, reqs[s].device)
       IN  reqs' = IF Cardinality(rows) > 1 THEN Raise(s, "500")
                   ELSE IF rows = {} THEN Goto(s, [pc |-> "insert"])
                   ELSE Goto(s, [pc |-> "lookup_existing_lot",
                                 existing_session |-> CHOOSE i \in rows : TRUE])
    /\ UNCHANGED <<engineVars, probe, parking_sessions, notifications,
                   votes, observer>>

\* check_in: the lot of the existing session is read for the message of
\* the 400
CheckInExistingLot(s) ==
    /\ reqs[s].op = "check_in"
    /\ reqs[s].pc = "lookup_existing_lot"
    /\ reqs' = Raise(s, "400")
    /\ UNCHANGED <<engineVars, probe, parking_sessions, notifications,
                   votes, observer>>

\* check_in: db.add(session), commit and refresh; checked_in_at is the
\* server default now()
CheckInCommit(s) ==
    /\ reqs[s].op = "check_in"
    /\ reqs[s].pc = "insert"
    /\ Len(parking_sessions) < MaxSessions
    /\ parking_sessions' = Append(parking_sessions,
           [device_id |-> reqs[s].device,
            parking_lot_id |-> reqs[s].lot.id,
            checked_in_at |-> now,
            checked_out_at |-> None,
            reminder_sent |-> FALSE])
    /\ reqs' = Done(s, "201", [session_id |-> Len(parking_sessions) + 1])
    /\ UNCHANGED <<engineVars, probe, notifications, votes, observer>>

\* POST /parking/checkout: the active session of the device,
\* scalar_one_or_none();
\* checkout_time is taken and set on the loaded session before the commit
CheckOutSelectActive(s, device) ==
    /\ Free(s)
    /\ LET r == Request("check_out", device)
           rows == ActiveSessionsOf(parking_sessions, device)
       IN  reqs' =
               IF Cardinality(rows) > 1
               THEN Enter(s, r, [pc |-> "responded", status |-> "500"])
               ELSE IF rows = {}
               THEN Enter(s, r, [pc |-> "responded", status |-> "400"])
               ELSE Enter(s, r, [pc |-> "commit",
                                 session |-> CHOOSE i \in rows : TRUE,
                                 checkout_time |-> now])
    /\ UNCHANGED <<engineVars, probe, parking_sessions, notifications,
                   votes, observer>>

\* check_out: the commit flushes UPDATE parking_sessions SET
\* checked_out_at WHERE id = session.id
CheckOutCommit(s) ==
    /\ reqs[s].op = "check_out"
    /\ reqs[s].pc = "commit"
    /\ parking_sessions' =
           [parking_sessions EXCEPT ![reqs[s].session].checked_out_at =
               [value |-> reqs[s].checkout_time]]
    /\ reqs' = Done(s, "200", [session_id |-> reqs[s].session])
    /\ UNCHANGED <<engineVars, probe, notifications, votes, observer>>

\* the sightings the spam check of report_sighting selects
SpamRows(db, device_id, parking_lot_id, five_minutes_ago) ==
    {i \in DOMAIN db :
        /\ db[i].reported_by_device_id = [value |-> device_id]
        /\ db[i].parking_lot_id = parking_lot_id
        /\ db[i].reported_at >= five_minutes_ago}

\* number of the sightings that were reported through the API
Reported(db) ==
    Cardinality({i \in DOMAIN db : db[i].reported_by_device_id # None})

\* POST /sightings: the lot must exist; five_minutes_ago is taken before
\* the spam check is awaited
ReportLookupLot(s, device, parking_lot_id) ==
    /\ Free(s)
    /\ LET r == Request("report_sighting", device)
           lot == SelectLot(parking_lots, parking_lot_id)
       IN  reqs' =
               IF lot = None
               THEN Enter(s, r, [pc |-> "responded", status |-> "404"])
               ELSE Enter(s, r, [pc |-> "spam_check", lot |-> lot,
                                 five_minutes_ago |-> now - 5])
    /\ UNCHANGED <<engineVars, probe, parking_sessions, notifications,
                   votes, observer>>

\* report_sighting: the spam check, scalar_one_or_none()
ReportSpamCheck(s) ==
    /\ reqs[s].op = "report_sighting"
    /\ reqs[s].pc = "spam_check"
    /\ LET rows == SpamRows(taps_sightings, reqs[s].device, reqs[s].lot.id,
                            reqs[s].five_minutes_ago)
       IN  reqs' = IF Cardinality(rows) > 1 THEN Raise(s, "500")
                   ELSE IF rows # {} THEN Raise(s, "429")
                   ELSE Goto(s, [pc |-> "insert"])
    /\ UNCHANGED <<engineVars, probe, parking_sessions, notifications,
                   votes, observer>>

\* report_sighting: db.add(sighting), commit and refresh; reported_at is
\* the server default now()
ReportCommit(s) ==
    /\ reqs[s].op = "report_sighting"
    /\ reqs[s].pc = "insert"
    /\ Reported(taps_sightings) < MaxReports
    /\ taps_sightings' = Append(taps_sightings,
           [parking_lot_id |-> reqs[s].lot.id,
            reported_by_device_id |-> [value |-> reqs[s].device],
            reported_at |-> now])
    /\ reqs' = Goto(s, [pc |-> "notify_select"])
    /\ UNCHANGED <<parking_lots, now, pc, req, loc, queries, response, error,
                   http_status, probe, parking_sessions, notifications,
                   votes, observer>>

\* notify_parked_users: the active sessions at the lot are selected;
\* created holds the ids of the notifications this call has created
NotifySelect(s) ==
    /\ reqs[s].op = "report_sighting"
    /\ reqs[s].pc = "notify_select"
    /\ reqs' = Goto(s, [pc |-> "notify_loop",
                        active_sessions |->
                            InIdOrder(ActiveSessionsAt(parking_sessions,
                                                       reqs[s].lot.id)),
                        remaining |->
                            InIdOrder(ActiveSessionsAt(parking_sessions,
                                                       reqs[s].lot.id)),
                        created |-> {},
                        notified_count |-> 0])
    /\ UNCHANGED <<engineVars, probe, parking_sessions, notifications,
                   votes, observer>>

\* notify_parked_users: one turn of the loop, create_notification with its
\* commit and the push attempt; after the last turn report_sighting returns
\* users_notified
NotifyStep(s) ==
    /\ reqs[s].op = "report_sighting"
    /\ reqs[s].pc = "notify_loop"
    /\ IF reqs[s].remaining = <<>>
       THEN /\ reqs' = Done(s, "201",
                            [parking_lot_id |-> reqs[s].lot.id,
                             active_sessions |-> reqs[s].active_sessions,
                             created |-> reqs[s].created,
                             users_notified |-> reqs[s].notified_count])
            /\ UNCHANGED notifications
       ELSE /\ notifications' = Append(notifications,
                   [device_id |->
                        parking_sessions[Head(reqs[s].remaining)].device_id,
                    notification_type |-> "TAPS_SPOTTED",
                    parking_lot_id |-> [value |-> reqs[s].lot.id],
                    created_at |-> now,
                    read_at |-> None])
            /\ reqs' = Goto(s, [remaining |-> Tail(reqs[s].remaining),
                                created |-> reqs[s].created
                                    \cup {Len(notifications) + 1},
                                notified_count |->
                                    reqs[s].notified_count + 1])
    /\ UNCHANGED <<engineVars, probe, parking_sessions, votes, observer>>

\* ids of the notifications the UPDATE of mark_notifications_read matches
MarkedRows(db, device_id, notification_ids) ==
    {i \in DOMAIN db : /\ i \in notification_ids
                       /\ db[i].device_id = device_id
                       /\ db[i].read_at = None}

\* mark_notifications_read whose UPDATE does not filter by device
MarkNotificationsReadAnyDevice(s, device, notification_ids) ==
    /\ Free(s)
    /\ LET marked == {i \in DOMAIN notifications :
                         /\ i \in notification_ids
                         /\ notifications[i].read_at = None}
       IN  /\ notifications' =
                  [i \in DOMAIN notifications |->
                      IF i \in marked
                      THEN [notifications[i] EXCEPT !.read_at =
                               [value |-> now]]
                      ELSE notifications[i]]
           /\ reqs' = Enter(s, Request("mark_read", device),
                            [pc |-> "responded", status |-> "200",
                             notification_ids |-> notification_ids,
                             marked_count |-> Cardinality(marked)])
    /\ UNCHANGED <<engineVars, probe, parking_sessions, votes, observer>>

\* POST /notifications/read: one UPDATE with its commit; the response
\* carries result.rowcount
MarkNotificationsRead(s, device, notification_ids) ==
    /\ Free(s)
    /\ LET marked == MarkedRows(notifications, device, notification_ids)
       IN  /\ notifications' =
                  [i \in DOMAIN notifications |->
                      IF i \in marked
                      THEN [notifications[i] EXCEPT !.read_at =
                               [value |-> now]]
                      ELSE notifications[i]]
           /\ reqs' = Enter(s, Request("mark_read", device),
                            [pc |-> "responded", status |-> "200",
                             notification_ids |-> notification_ids,
                             marked_count |-> Cardinality(marked)])
    /\ UNCHANGED <<engineVars, probe, parking_sessions, votes, observer>>

VoteTypes == {"upvote", "downvote"}

\* ids of the votes of a device on a sighting
VotesOf(db, device_id, sighting_id) ==
    {i \in DOMAIN db : /\ db[i] # None
                       /\ db[i].device_id = device_id
                       /\ db[i].sighting_id = sighting_id}

\* POST /feed/sightings/{sighting_id}/vote: the sighting must exist
VoteLookupSighting(s, device, sighting_id, vote_type) ==
    /\ Free(s)
    /\ LET r == Request("vote", device)
       IN  reqs' =
               IF sighting_id \notin DOMAIN taps_sightings
               THEN Enter(s, r, [pc |-> "responded", status |-> "404"])
               ELSE Enter(s, r, [pc |-> "select_vote",
                                 sighting_id |-> sighting_id,
                                 vote_type |-> vote_type])
    /\ UNCHANGED <<engineVars, probe, parking_sessions, notifications,
                   votes, observer>>

\* vote_on_sighting: the vote of the device on the sighting is loaded and
\* the handler decides to insert, delete or update it
VoteSelectExisting(s) ==
    /\ reqs[s].op = "vote"
    /\ reqs[s].pc = "select_vote"
    /\ LET rows == VotesOf(votes, reqs[s].device, reqs[s].sighting_id)
       IN  reqs' =
               IF Cardinality(rows) > 1 THEN Raise(s, "500")
               ELSE IF rows = {} THEN Goto(s, [pc |-> "insert"])
               ELSE LET existing_vote == CHOOSE i \in rows : TRUE
                    IN  IF votes[existing_vote].vote_type = reqs[s].vote_type
                        THEN Goto(s, [pc |-> "delete",
                                      existing_vote |-> existing_vote])
                        ELSE Goto(s, [pc |-> "update",
                                      existing_vote |-> existing_vote])
    /\ UNCHANGED <<engineVars, probe, parking_sessions, notifications,
                   votes, observer>>

\* vote_on_sighting: db.add(vote) and commit; the unique constraint on
\* (device_id, sighting_id) makes the INSERT of a second vote fail
VoteInsertCommit(s) ==
    /\ reqs[s].op = "vote"
    /\ reqs[s].pc = "insert"
    /\ IF VotesOf(votes, reqs[s].device, reqs[s].sighting_id) # {}
       THEN /\ reqs' = Raise(s, "500")
            /\ UNCHANGED votes
       ELSE /\ Len(votes) < MaxVotes
            /\ votes' = Append(votes, [device_id |-> reqs[s].device,
                                       sighting_id |-> reqs[s].sighting_id,
                                       vote_type |-> reqs[s].vote_type])
            /\ reqs' = Done(s, "200",
                            [sighting_id |-> reqs[s].sighting_id,
                             action |-> "created",
                             vote_type |-> [value |-> reqs[s].vote_type]])
    /\ UNCHANGED <<engineVars, probe, parking_sessions, notifications,
                   observer>>

\* vote_on_sighting: db.delete(existing_vote) and commit; a DELETE by id
\* that matches no row any more only warns
VoteDeleteCommit(s) ==
    /\ reqs[s].op = "vote"
    /\ reqs[s].pc = "delete"
    /\ votes' = [votes EXCEPT ![reqs[s].existing_vote] = None]
    /\ reqs' = Done(s, "200", [sighting_id |-> reqs[s].sighting_id,
                               action |-> "removed", vote_type |-> None])
    /\ UNCHANGED <<engineVars, probe, parking_sessions, notifications,
                   observer>>

\* vote_on_sighting: the changed vote_type and commit; an UPDATE by id that
\* matches no row any more raises StaleDataError
VoteUpdateCommit(s) ==
    /\ reqs[s].op = "vote"
    /\ reqs[s].pc = "update"
    /\ IF votes[reqs[s].existing_vote] = None
       THEN /\ reqs' = Raise(s, "500")
            /\ UNCHANGED votes
       ELSE /\ votes' = [votes EXCEPT ![reqs[s].existing_vote].vote_type =
                            reqs[s].vote_type]
            /\ reqs' = Done(s, "200",
                            [sighting_id |-> reqs[s].sighting_id,
                             action |-> "updated",
                             vote_type |-> [value |-> reqs[s].vote_type]])
    /\ UNCHANGED <<engineVars, probe, parking_sessions, notifications,
                   observer>>

\* the response is sent and the worker takes the next request
Respond(s) ==
    /\ reqs[s] # Idle
    /\ reqs[s].pc = "responded"
    /\ reqs' = [reqs EXCEPT ![s] = Idle]
    /\ UNCHANGED <<engineVars, probe, parking_sessions, notifications,
                   votes, observer>>

(***************************************************************************)
(* Parking: check-ins and check-outs of two devices, handled concurrently  *)
(***************************************************************************)
AppInit ==
    /\ parking_lots = Lots
    /\ taps_sightings = <<>>
    /\ now = NowInit
    /\ pc = "idle"
    /\ req = None
    /\ loc = None
    /\ queries = <<>>
    /\ response = None
    /\ error = "none"
    /\ http_status = "none"
    /\ probe = NoProbe
    /\ parking_sessions = <<>>
    /\ notifications = <<>>
    /\ votes = <<>>
    /\ reqs = [s \in Slots |-> Idle]
    /\ observer = [at_call |-> <<>>, seen |-> None]

ParkNext ==
    \/ \E s \in Slots, d \in Devices, l \in LotIds : CheckInLookupLot(s, d, l)
    \/ \E s \in Slots : CheckInSelectActive(s)
    \/ \E s \in Slots : CheckInExistingLot(s)
    \/ \E s \in Slots : CheckInCommit(s)
    \/ \E s \in Slots, d \in Devices : CheckOutSelectActive(s, d)
    \/ \E s \in Slots : CheckOutCommit(s)
    \/ \E s \in Slots : Respond(s)

ParkSpec == AppInit /\ [][ParkNext]_vars

(***************************************************************************)
(* Alerts: device 2 reports sightings at lot 1 while device 1 checks in at  *)
(* lot 1 and device 2 checks in at either lot and checks out               *)
(***************************************************************************)
AlertNext ==
    \/ \E s \in Slots : CheckInLookupLot(s, 1, 1)
    \/ \E s \in Slots, l \in {1, 2} : CheckInLookupLot(s, 2, l)
    \/ \E s \in Slots : CheckInSelectActive(s)
    \/ \E s \in Slots : CheckInExistingLot(s)
    \/ \E s \in Slots : CheckInCommit(s)
    \/ \E s \in Slots : CheckOutSelectActive(s, 2)
    \/ \E s \in Slots : CheckOutCommit(s)
    \/ \E s \in Slots : ReportLookupLot(s, 2, 1)
    \/ \E s \in Slots : ReportSpamCheck(s)
    \/ \E s \in Slots : ReportCommit(s)
    \/ \E s \in Slots : NotifySelect(s)
    \/ \E s \in Slots : NotifyStep(s)
    \/ \E s \in Slots : Respond(s)

AlertSpec == AppInit /\ [][AlertNext]_vars

(***************************************************************************)
(* Reports: sighting reports of two devices over time, handled             *)
(* concurrently                                                            *)
(***************************************************************************)
ReportNext ==
    \/ Tick
    \/ \E s \in Slots, d \in Devices, l \in LotIds : ReportLookupLot(s, d, l)
    \/ \E s \in Slots : ReportSpamCheck(s)
    \/ \E s \in Slots : ReportCommit(s)
    \/ \E s \in Slots : NotifySelect(s)
    \/ \E s \in Slots : NotifyStep(s)
    \/ \E s \in Slots : Respond(s)

ReportSpec == AppInit /\ [][ReportNext]_vars

(***************************************************************************)
(* Reading notifications: two devices mark notifications read over time,   *)
(* one request at a time (the UPDATE and its commit are one statement)     *)
(***************************************************************************)
\* unread alerts, as notify_parked_users leaves them
NotificationRows == [device_id : Devices,
                     notification_type : {"TAPS_SPOTTED"},
                     parking_lot_id : {[value |-> 1]},
                     created_at : {NowInit},
                     read_at : {None}]

\* the ids a request may list; MaxNotifications + 1 is the id of no row
NotificationIds == SUBSET (1..(MaxNotifications + 1))

NotifInit ==
    /\ parking_lots = Lots
    /\ taps_sightings = <<>>
    /\ now = NowInit
    /\ pc = "idle"
    /\ req = None
    /\ loc = None
    /\ queries = <<>>
    /\ response = None
    /\ error = "none"
    /\ http_status = "none"
    /\ probe = NoProbe
    /\ parking_sessions = <<>>
    /\ notifications \in
           UNION {[1..n -> NotificationRows] : n \in 0..MaxNotifications}
    /\ votes = <<>>
    /\ reqs = [s \in Slots |-> Idle]
    /\ observer = [at_call |-> <<>>, seen |-> None]

NotifNext ==
    \/ Tick
    \/ \E d \in Devices, ids \in NotificationIds :
          MarkNotificationsRead(1, d, ids)
    \/ \E s \in Slots : Respond(s)

NotifSpec == NotifInit /\ [][NotifNext]_vars

(***************************************************************************)
(* Voting: two devices vote on two sightings, handled concurrently         *)
(***************************************************************************)
VoteInit ==
    /\ parking_lots = Lots
    /\ taps_sightings =
           <<[parking_lot_id |-> 1, reported_by_device_id |-> None,
              reported_at |-> Ts(161, 9, 30)],
             [parking_lot_id |-> 2, reported_by_device_id |-> None,
              reported_at |-> Ts(163, 8, 0)]>>
    /\ now = NowInit
    /\ pc = "idle"
    /\ req = None
    /\ loc = None
    /\ queries = <<>>
    /\ response = None
    /\ error = "none"
    /\ http_status = "none"
    /\ probe = NoProbe
    /\ parking_sessions = <<>>
    /\ notifications = <<>>
    /\ votes = <<>>
    /\ reqs = [s \in Slots |-> Idle]
    /\ observer = [at_call |-> <<>>, seen |-> None]

VoteNext ==
    \/ \E s \in Slots, d \in Devices, i \in {1, 2, 3}, t \in VoteTypes :
          VoteLookupSighting(s, d, i, t)
    \/ \E s \in Slots : VoteSelectExisting(s)
    \/ \E s \in Slots : VoteInsertCommit(s)
    \/ \E s \in Slots : VoteDeleteCommit(s)
    \/ \E s \in Slots : VoteUpdateCommit(s)
    \/ \E s \in Slots : Respond(s)

VoteSpec == VoteInit /\ [][VoteNext]_vars

(***************************************************************************)
(* Predictions while sightings are reported: predict calls, the reports    *)
(* of device 1 one at a time, and one earlier call kept with its result    *)
(* for comparison                                                          *)
(***************************************************************************)
\* the current time when the model starts: Monday 2024-06-17 09:00 (summer),
\* Saturday 06-08 23:30 (finals, the next hour is a Sunday), Thursday
\* 04-04 11:30 (spring quarter)
HistNows == {NowInit, Ts(159, 23, 30), Ts(94, 11, 30)}

\* the history when the model starts: at most one sighting, reported on
\* Friday 2024-03-01
HistHistories ==
    {h \in UNION {[1..n -> SightingRows] : n \in 0..1} :
        \A i \in DOMAIN h : h[i].reported_at = Ts(60, 12, 0)}

\* a finished call whose history did not change while it ran is kept
Remember ==
    /\ pc = "done"
    /\ observer.seen = None
    /\ observer.at_call = taps_sightings
    /\ observer' = [observer EXCEPT !.seen =
                       [parking_lot_id |-> req.parking_lot_id,
                        timestamp |-> loc.timestamp,
                        history |-> taps_sightings,
                        response |-> response]]
    /\ UNCHANGED <<engineVars, probe, parking_sessions, notifications,
                   votes, reqs>>

HistInit ==
    /\ parking_lots = Lots
    /\ taps_sightings \in HistHistories
    /\ now \in HistNows
    /\ pc = "idle"
    /\ req = None
    /\ loc = None
    /\ queries = <<>>
    /\ response = None
    /\ error = "none"
    /\ http_status = "none"
    /\ probe = NoProbe
    /\ parking_sessions = <<>>
    /\ notifications = <<>>
    /\ votes = <<>>
    /\ reqs = [s \in Slots |-> Idle]
    /\ observer = [at_call |-> <<>>, seen |-> None]

HistNext ==
    \/ \E id \in {1, 2},
          t \in {None, [value |-> now + 60], [value |-> now - 60]} :
          PredictCall(id, t)
    \/ LookupLot
    \/ HistoricalStep
    \/ Recent2hStep
    \/ Recent24hStep
    \/ Confidence90dStep
    \/ Confidence24hStep
    \/ Remember
    \/ Return
    \/ \E l \in {1, 2} : ReportLookupLot(1, 1, l)
    \/ \E s \in Slots : ReportSpamCheck(s)
    \/ \E s \in Slots : ReportCommit(s)
    \/ \E s \in Slots : NotifySelect(s)
    \/ \E s \in Slots : NotifyStep(s)
    \/ \E s \in Slots : Respond(s)

HistSpec == HistInit /\ [][HistNext]_vars

(***************************************************************************)
(* The checkout reminder job, run by the scheduler every 5 minutes, one    *)
(* instance at a time, beside check-ins and check-outs                     *)
(***************************************************************************)
parking_reminder_hours == 3

\* the place of the job instance among the running handlers
JobSlot == Cardinality(Slots) + 1

\* ids of the sessions process_pending_reminders selects
PendingReminders(db, cutoff_time) ==
    {i \in DOMAIN db : /\ db[i].checked_out_at = None
                       /\ db[i].checked_in_at <= cutoff_time
                       /\ db[i].reminder_sent = FALSE}

\* process_pending_reminders: the cutoff and the select of the sessions
ReminderSelect ==
    /\ reqs[JobSlot] = Idle
    /\ LET cutoff_time == now - Hours(parking_reminder_hours)
       IN  reqs' = [reqs EXCEPT ![JobSlot] =
                       [op |-> "reminder_job", pc |-> "loop",
                        sessions |-> InIdOrder(
                            PendingReminders(parking_sessions, cutoff_time)),
                        reminders_sent |-> 0,
                        errors |-> 0]]
    /\ UNCHANGED <<engineVars, probe, parking_sessions, notifications,
                   votes, observer>>

\* send_checkout_reminder: create_notification adds the notification and
\* commits; the observer notes the row of the session at that moment
ReminderCreateNotification ==
    /\ reqs[JobSlot] # Idle
    /\ reqs[JobSlot].pc = "loop"
    /\ reqs[JobSlot].sessions # <<>>
    /\ LET session == Head(reqs[JobSlot].sessions)
       IN  /\ notifications' = Append(notifications,
                  [device_id |-> parking_sessions[session].device_id,
                   notification_type |-> "CHECKOUT_REMINDER",
                   parking_lot_id |->
                       [value |-> parking_sessions[session].parking_lot_id],
                   created_at |-> now,
                   read_at |-> None])
           /\ observer' = [observer EXCEPT !.reminders =
                  Append(@, [session |-> session, at |-> now,
                             row |-> parking_sessions[session]])]
    /\ reqs' = Goto(JobSlot, [pc |-> "mark"])
    /\ UNCHANGED <<engineVars, probe, parking_sessions, votes>>

\* send_checkout_reminder: session.reminder_sent = True and the commit,
\* UPDATE parking_sessions SET reminder_sent WHERE id = session.id
ReminderMarkSent ==
    /\ reqs[JobSlot] # Idle
    /\ reqs[JobSlot].pc = "mark"
    /\ parking_sessions' =
           [parking_sessions EXCEPT
               ![Head(reqs[JobSlot].sessions)].reminder_sent = TRUE]
    /\ reqs' = Goto(JobSlot,
                    [pc |-> "loop",
                     sessions |-> Tail(reqs[JobSlot].sessions),
                     reminders_sent |-> reqs[JobSlot].reminders_sent + 1])
    /\ UNCHANGED <<engineVars, probe, notifications, votes, observer>>

\* ReminderSendFails that gives up the rest of the run
ReminderSendFailsAbort ==
    /\ reqs[JobSlot] # Idle
    /\ reqs[JobSlot].pc = "loop"
    /\ reqs[JobSlot].sessions # <<>>
    /\ reqs' = Goto(JobSlot, [sessions |-> <<>>,
                              errors |-> reqs[JobSlot].errors + 1])
    /\ UNCHANGED <<engineVars, probe, parking_sessions, notifications,
                   votes, observer>>

\* the commit of create_notification raises: the exception is caught and
\* logged in the loop, which goes on with the next session
ReminderSendFails ==
    /\ reqs[JobSlot] # Idle
    /\ reqs[JobSlot].pc = "loop"
    /\ reqs[JobSlot].sessions # <<>>
    /\ reqs' = Goto(JobSlot, [sessions |-> Tail(reqs[JobSlot].sessions),
                              errors |-> reqs[JobSlot].errors + 1])
    /\ UNCHANGED <<engineVars, probe, parking_sessions, notifications,
                   votes, observer>>

\* the loop is over: the count is returned and logged, the job instance ends
ReminderReturn ==
    /\ reqs[JobSlot] # Idle
    /\ reqs[JobSlot].pc = "loop"
    /\ reqs[JobSlot].sessions = <<>>
    /\ reqs' = [reqs EXCEPT ![JobSlot] = Idle]
    /\ UNCHANGED <<engineVars, probe, parking_sessions, notifications,
                   votes, observer>>

\* minutes before NowInit at which the sessions of the start were checked in
ReminderCheckIns == {Hours(parking_reminder_hours),
                     Hours(parking_reminder_hours) - 5}

\* the sessions when the model starts: none, one of device 1, or one of
\* each device, all active and not reminded
ReminderSessions ==
    UNION {[1..n -> [device_id : Devices,
                     parking_lot_id : {1},
                     checked_in_at : {NowInit - m : m \in ReminderCheckIns},
                     checked_out_at : {None},
                     reminder_sent : {FALSE}]] : n \in 0..2}

ReminderInit ==
    /\ parking_lots = Lots
    /\ taps_sightings = <<>>
    /\ now = NowInit
    /\ pc = "idle"
    /\ req = None
    /\ loc = None
    /\ queries = <<>>
    /\ response = None
    /\ error = "none"
    /\ http_status = "none"
    /\ probe = NoProbe
    /\ parking_sessions \in ReminderSessions
    /\ \A i \in DOMAIN parking_sessions : parking_sessions[i].device_id = i
    /\ notifications = <<>>
    /\ votes = <<>>
    /\ reqs = [s \in Slots \cup {JobSlot} |-> Idle]
    /\ observer = [at_call |-> <<>>, seen |-> None, reminders |-> <<>>]

ReminderNext ==
    \/ Tick
    \/ ReminderSelect
    \/ ReminderCreateNotification
    \/ ReminderMarkSent
    \/ ReminderSendFails
    \/ ReminderReturn
    \/ \E d \in Devices : CheckOutSelectActive(1, d)
    \/ CheckOutCommit(1)
    \/ Respond(1)

ReminderSpec == ReminderInit /\ [][ReminderNext]_vars

\* the scheduler keeps starting the job and the job instance keeps running;
\* the commit of create_notification does not fail for ever
ReminderLive ==
    /\ ReminderSpec
    /\ WF_vars(ReminderSelect)
    /\ SF_vars(ReminderCreateNotification)
    /\ WF_vars(ReminderMarkSent)
    /\ WF_vars(ReminderReturn)

(***************************************************************************)
(* Check-ins and check-outs of two devices while time passes               *)
(***************************************************************************)
StayNext ==
    \/ Tick
    \/ \E s \in Slots, d \in Devices : CheckInLookupLot(s, d, 1)
    \/ \E s \in Slots : CheckInSelectActive(s)
    \/ \E s \in Slots : CheckInExistingLot(s)
    \/ \E s \in Slots : CheckInCommit(s)
    \/ \E s \in Slots, d \in Devices : CheckOutSelectActive(s, d)
    \/ \E s \in Slots : CheckOutCommit(s)
    \/ \E s \in Slots : Respond(s)

StaySpec == AppInit /\ [][StayNext]_vars

(***************************************************************************)
(* Properties                                                              *)
(***************************************************************************)
LotMissing == req # None /\ ~ \E l \in parking_lots : l.id = req.parking_lot_id

LotFound == req # None /\ \E l \in parking_lots : l.id = req.parking_lot_id

\* C1: a predict call for a lot id that resolves to no parking lot raises
\* ValueError at the lot lookup, which the endpoint answers with 404: it
\* never has a response, has evaluated no factor and has issued no
\* sighting-count query.
C1_NotFound ==
    LotMissing =>
        /\ pc \in {"lookup", "raised", "idle"}
        /\ response = None
        /\ loc = None
        /\ queries = <<>>
        /\ pc # "lookup" => error = "ValueError"
        /\ pc = "idle" => http_status = "404"

C1_Witness ==
    LotMissing /\ pc = "idle" /\ error = "ValueError" /\ http_status = "404"

\* C2: for an existing lot the call always returns a response (the schema
\* never rejects it), and in it the five factors, the probability and the
\* confidence lie in [0,1] and risk_level is LOW, MEDIUM or HIGH.
C2_ResultInRange ==
    /\ LotFound => error = "none"
    /\ response # None =>
          /\ InRange01(response.factors.time_of_day_factor)
          /\ InRange01(response.factors.day_of_week_factor)
          /\ InRange01(response.factors.historical_factor)
          /\ InRange01(response.factors.recent_sightings_factor)
          /\ InRange01(response.factors.academic_calendar_factor)
          /\ InRange01(response.probability)
          /\ InRange01(response.confidence)
          /\ response.risk_level \in {"LOW", "MEDIUM", "HIGH"}

C2_Witness ==
    /\ pc = "done"
    /\ response # None
    /\ Hour(response.predicted_for) = 21
    /\ response.factors.recent_sightings_factor = Dec(950)
    /\ response.factors.historical_factor > Dec(300)

\* C3: the time-of-day factor depends on the hour h alone and is 0.05 for
\* h < 6 or h >= 22, 0.2 + (h-6)*0.15 for 6 <= h < 8, 0.85 for 8 <= h < 17
\* except 0.70 at h = 12, and 0.6 - (h-17)*0.11 for 17 <= h < 22; it lies in
\* [0,1], does not decrease over [6,8) and does not increase over [17,22).
C3_Expected(h) ==
    IF h < 6 \/ h >= 22 THEN 5000
    ELSE IF h < 8 THEN 20000 + (h - 6) * 15000
    ELSE IF h < 17 THEN (IF h = 12 THEN 70000 ELSE 85000)
    ELSE 60000 - (h - 17) * 11000

C3_TimeOfDay ==
    probe.fn = "time_of_day" =>
        LET h == (probe.arg \div 60) % 24
        IN  /\ probe.ret = C3_Expected(h)
            /\ 0 <= probe.ret /\ probe.ret <= 100000
            /\ h = 6 => probe.ret = 20000
            /\ h = 7 => probe.ret = 35000
            /\ (h < 6 \/ h >= 22) => probe.ret <= 5000
            /\ h = 7 => probe.ret >= TimeOfDayFactor(probe.arg - 60)
            /\ (17 < h /\ h < 22) =>
                   probe.ret <= TimeOfDayFactor(probe.arg - 60)

C3_Witness ==
    /\ probe.fn = "time_of_day"
    /\ probe.arg = Ts(161, 21, 59)
    /\ probe.ret = 16000

\* the sightings at the lot reported within the 90 days before dt on the
\* same day of the week as dt
SameWeekdaySightings(db, parking_lot_id, dt) ==
    {i \in DOMAIN db :
        /\ db[i].parking_lot_id = parking_lot_id
        /\ dt - Days(90) <= db[i].reported_at
        /\ db[i].reported_at <= dt
        /\ Weekday(db[i].reported_at) = Weekday(dt)}

\* C4: the count behind the historical factor is the number of sightings at
\* the lot within the 90 days before the timestamp that fall on the same
\* day of the week as the timestamp.
C4_SameWeekdayCount ==
    (pc \in {"recent_2h", "recent_24h", "confidence_90d", "confidence_24h",
             "done"}) =>
        loc.count = Cardinality(SameWeekdaySightings(
                        taps_sightings, req.parking_lot_id, loc.timestamp))

\* C5: the historical factor is 0.3 for a count of 0 and
\* min(0.3 + c*0.065, 0.95) for a count c > 0; it does not decrease with c
\* and is 0.95 from c = 10 on.
C5_Historical ==
    probe.fn = "historical" =>
        LET c == probe.arg
        IN  /\ probe.ret = IF c = 0 THEN 30000
                           ELSE Min(30000 + c * 6500, 95000)
            /\ c >= 10 => probe.ret = 95000
            /\ c > 0 => probe.ret >= HistoricalFromCount(c - 1)

C5_Witness ==
    probe.fn = "historical" /\ probe.arg = 10 /\ probe.ret = 95000

\* C6: the recent-sightings factor is 0.95 whenever the 2-hour count is
\* above 0, whatever the 24-hour count; with a 2-hour count of 0 it is 0.4
\* for a 24-hour count c of 0 and min(0.5 + c*0.1, 0.85) otherwise.
C6_Recent ==
    probe.fn = "recent_sightings" =>
        LET v == probe.arg[1]
            c == probe.arg[2]
        IN  /\ v > 0 => probe.ret = 95000
            /\ (v = 0 /\ c = 0) => probe.ret = 40000
            /\ (v = 0 /\ c > 0) => probe.ret = Min(50000 + c * 10000, 85000)

C6_Witness ==
    probe.fn = "recent_sightings" /\ probe.arg = <<1, 5>> /\ probe.ret = 95000

\* the date of dt lies between two dates of the year, both included
C7_Between(dt, from, to) ==
    /\ DayOfYear(from[1], from[2]) <= DayIndex(dt)
    /\ DayIndex(dt) <= DayOfYear(to[1], to[2])

C7_InFinals(dt) ==
    \/ C7_Between(dt, <<12, 7>>, <<12, 13>>)
    \/ C7_Between(dt, <<3, 15>>, <<3, 21>>)
    \/ C7_Between(dt, <<6, 7>>, <<6, 13>>)

C7_InQuarter(dt) ==
    \/ C7_Between(dt, <<9, 25>>, <<12, 13>>)
    \/ C7_Between(dt, <<1, 6>>, <<3, 21>>)
    \/ C7_Between(dt, <<3, 31>>, <<6, 13>>)

\* C7: the academic-calendar factor of a date is 0.95 in a finals range
\* (Dec 7-13, Mar 15-21, Jun 7-13), else 0.75 in a quarter range (Sep 25 -
\* Dec 13, Jan 6 - Mar 21, Mar 31 - Jun 13), else 0.35; the first and the
\* last day of a range belong to it and finals win over the quarter.
C7_AcademicCalendar ==
    probe.fn = "academic_calendar" =>
        probe.ret = IF C7_InFinals(probe.arg) THEN 95000
                    ELSE IF C7_InQuarter(probe.arg) THEN 75000
                    ELSE 35000

C7_Witness ==
    /\ probe.fn = "academic_calendar"
    /\ Month(probe.arg) = 9 /\ Day(probe.arg) = 25
    /\ probe.ret = 75000

\* C8: the risk level of a probability p in [0,1] is LOW exactly for
\* p < 0.3, MEDIUM exactly for 0.3 <= p < 0.6 and HIGH exactly for p >= 0.6.
C8_RiskLevel ==
    probe.fn = "risk_level" =>
        LET p == probe.arg
        IN  /\ probe.ret \in {"LOW", "MEDIUM", "HIGH"}
            /\ probe.ret = "LOW" <=> p < 30000
            /\ probe.ret = "MEDIUM" <=> (30000 <= p /\ p < 60000)
            /\ probe.ret = "HIGH" <=> p >= 60000

C8_Witness ==
    probe.fn = "risk_level" /\ probe.arg = 30000 /\ probe.ret = "MEDIUM"

\* C9: confidence(h, r) = min(0.4 + min(h*0.02, 0.3) + min(r*0.05, 0.2),
\* 0.95); it is 0.4 for h = r = 0, does not decrease with h or with r, and
\* lies in [0.4, 0.95].
C9_Confidence ==
    probe.fn = "confidence" =>
        LET h == probe.arg[1]
            r == probe.arg[2]
        IN  /\ probe.ret = Min(40000 + Min(h * 2000, 30000)
                                     + Min(r * 5000, 20000), 95000)
            /\ (h = 0 /\ r = 0) => probe.ret = 40000
            /\ 40000 <= probe.ret /\ probe.ret <= 95000
            /\ h > 0 => probe.ret >= Confidence(h - 1, r)
            /\ r > 0 => probe.ret >= Confidence(h, r - 1)

C9_Witness ==
    probe.fn = "confidence" /\ probe.arg = <<15, 4>> /\ probe.ret = 90000

\* C10: the probability is 0.25*time_of_day + 0.20*day_of_week +
\* 0.20*historical + 0.20*recent_sightings + 0.15*academic_calendar; the
\* weights sum to 1.0, the sum lies in [0,1] for every combination of
\* factor values and the clamp leaves it unchanged.
C10_WeightedSum ==
    probe.fn = "combine" =>
        LET f == probe.arg
            w == probe.weights
        IN  /\ probe.weighted * 100 =
                   25 * f[1] + 20 * f[2] + 20 * f[3] + 20 * f[4] + 15 * f[5]
            /\ w.time_of_day + w.day_of_week + w.historical
                   + w.recent_sightings + w.academic_calendar = 100
            /\ 0 <= probe.weighted /\ probe.weighted <= 100000
            /\ probe.ret = probe.weighted

C10_Witness ==
    probe.fn = "combine" /\ probe.weighted = 91500 /\ probe.ret = 91500

\* C13: the day-of-week factor of a timestamp is the table value of its
\* weekday (Mon 0.85, Tue 0.90, Wed 0.85, Thu 0.80, Fri 0.70, Sat 0.15,
\* Sun 0.10); Saturday and Sunday are below 0.2, Monday to Friday at least
\* 0.2, and the default 0.5 is never returned.
C13_Table == <<85000, 90000, 85000, 80000, 70000, 15000, 10000>>

C13_DayOfWeek ==
    probe.fn = "day_of_week" =>
        LET wd == (probe.arg \div 1440) % 7
        IN  /\ probe.ret = C13_Table[wd + 1]
            /\ wd >= 5 => probe.ret < 20000
            /\ wd <= 4 => probe.ret >= 20000
            /\ probe.ret # 50000

\* Sunday 2024-06-16
C13_Witness ==
    /\ probe.fn = "day_of_week"
    /\ probe.arg = Ts(167, 10, 0)
    /\ probe.ret = 10000

\* C20 as stated: within one predict call the 90-day count of the confidence
\* equals the count of the historical factor, and the 24-hour count of the
\* confidence equals the 24-hour count of the recent-sightings factor.
C20_SameCounts ==
    pc = "done" =>
        /\ loc.historical_count = loc.count
        /\ "recent" \in DOMAIN loc => loc.recent_count = loc.recent

\* C20, amended: the 90-day count of the confidence is the number of all
\* sightings at the lot reported since 90 days before the timestamp,
\* whatever their day of the week, so it is at least the count of the
\* historical factor; the 24-hour count of the confidence equals the
\* 24-hour count of the recent-sightings factor whenever that factor
\* queried it (2-hour count 0), and is at least the 2-hour count.
C20_ConfidenceCounts ==
    pc = "done" =>
        /\ loc.historical_count =
               Cardinality({i \in DOMAIN taps_sightings :
                   /\ taps_sightings[i].parking_lot_id = req.parking_lot_id
                   /\ taps_sightings[i].reported_at
                          >= loc.timestamp - 90 * 1440})
        /\ loc.historical_count >= loc.count
        /\ "recent" \in DOMAIN loc => loc.recent_count = loc.recent
        /\ loc.recent_count >= loc.very_recent

C20_Witness ==
    /\ pc = "done"
    /\ loc.historical_count > loc.count
    /\ loc.count > 0
    /\ "recent" \in DOMAIN loc
    /\ loc.recent > 0

\* C14: in every reachable state each device has at most one active
\* parking session (checked_out_at is null), whatever the interleaving of
\* check-ins and check-outs, two concurrent check-ins of one device included.
C14_OneActiveSession ==
    \A d \in Devices :
        Cardinality(ActiveSessionsOf(parking_sessions, d)) <= 1

\* C19: a check-out by a device with no active session answers 400 and
\* changes no session; a check-out by a device with an active session goes
\* on to set checked_out_at on that session, answers 200 and leaves every
\* other session, and every other field of that session, unchanged.
C19_CheckOutStep(s) ==
    /\ (reqs[s] = Idle /\ reqs'[s] # Idle /\ reqs'[s].op = "check_out") =>
          LET active == ActiveSessionsOf(parking_sessions, reqs'[s].device)
          IN  /\ parking_sessions' = parking_sessions
              /\ IF active = {}
                 THEN reqs'[s].pc = "responded" /\ reqs'[s].status = "400"
                 ELSE reqs'[s].pc = "commit" /\ reqs'[s].session \in active
    /\ (/\ reqs[s] # Idle
        /\ reqs[s].op = "check_out"
        /\ reqs[s].pc = "commit"
        /\ reqs'[s] # reqs[s]) =>
          /\ reqs'[s].status = "200"
          /\ parking_sessions'[reqs[s].session].checked_out_at # None
          /\ \A i \in DOMAIN parking_sessions :
                parking_sessions'[i] =
                    IF i = reqs[s].session
                    THEN [parking_sessions[i] EXCEPT !.checked_out_at =
                             parking_sessions'[i].checked_out_at]
                    ELSE parking_sessions[i]

C19_CheckOut == [][\A s \in Slots : C19_CheckOutStep(s)]_vars

\* C15: when a sighting report at lot L succeeds, users_notified is the
\* number of parking sessions that were active at L when the parked users
\* were looked up, each device with such a session has got exactly one new
\* unread TAPS_SPOTTED notification for L from this report, and every other
\* device has got none.
C15_Notified ==
    \A s \in Slots :
        (/\ reqs[s] # Idle
         /\ reqs[s].op = "report_sighting"
         /\ reqs[s].pc = "responded"
         /\ reqs[s].status = "201") =>
            LET r == reqs[s]
                parked == {parking_sessions[r.active_sessions[k]].device_id :
                              k \in DOMAIN r.active_sessions}
                NewFor(d) == {n \in r.created :
                                 notifications[n].device_id = d}
            IN  /\ r.users_notified = Len(r.active_sessions)
                /\ \A n \in r.created :
                      /\ notifications[n].notification_type = "TAPS_SPOTTED"
                      /\ notifications[n].parking_lot_id
                             = [value |-> r.parking_lot_id]
                      /\ notifications[n].read_at = None
                /\ \A d \in Devices :
                      Cardinality(NewFor(d)) = IF d \in parked THEN 1 ELSE 0

\* C16: no two sightings recorded for the same device and the same lot have
\* reported_at less than 5 minutes apart, whatever the interleaving of the
\* report_sighting requests.
C16_NoRepeatWithin5Minutes ==
    \A i, j \in DOMAIN taps_sightings :
        (/\ i < j
         /\ taps_sightings[i].reported_by_device_id # None
         /\ taps_sightings[i].reported_by_device_id
                = taps_sightings[j].reported_by_device_id
         /\ taps_sightings[i].parking_lot_id
                = taps_sightings[j].parking_lot_id) =>
            taps_sightings[j].reported_at - taps_sightings[i].reported_at >= 5

\* C18: mark_notifications_read(device, ids) sets read_at on exactly the
\* notifications that are in ids, belong to the calling device and are
\* unread, and returns their number; every other notification, those of
\* other devices and those already read included, keeps all its fields.
C18_MarkReadStep(s) ==
    (reqs[s] = Idle /\ reqs'[s] # Idle /\ reqs'[s].op = "mark_read") =>
        LET r == reqs'[s]
            own_unread == {i \in DOMAIN notifications :
                              /\ i \in r.notification_ids
                              /\ notifications[i].device_id = r.device
                              /\ notifications[i].read_at = None}
        IN  /\ r.marked_count = Cardinality(own_unread)
            /\ DOMAIN notifications' = DOMAIN notifications
            /\ \A i \in DOMAIN notifications :
                  IF i \in own_unread
                  THEN /\ notifications'[i].read_at # None
                       /\ notifications'[i] =
                              [notifications[i] EXCEPT !.read_at =
                                  notifications'[i].read_at]
                  ELSE notifications'[i] = notifications[i]

C18_MarkRead == [][\A s \in Slots : C18_MarkReadStep(s)]_vars

\* a call that listed an unread notification of the other device and one of
\* its own that an earlier call had marked, and marked none
C18_Witness ==
    \E s \in Slots :
        /\ reqs[s] # Idle
        /\ reqs[s].op = "mark_read"
        /\ reqs[s].marked_count = 0
        /\ \E i, j \in reqs[s].notification_ids \cap DOMAIN notifications :
              /\ notifications[i].device_id # reqs[s].device
              /\ notifications[i].read_at = None
              /\ notifications[j].device_id = reqs[s].device
              /\ notifications[j].read_at # None
              /\ notifications[j].read_at.value < now

\* the vote type of a device on a sighting, None when it has no vote
C17_State(db, device_id, sighting_id) ==
    LET rows == VotesOf(db, device_id, sighting_id)
    IN  IF rows = {} THEN None
        ELSE [value |-> db[CHOOSE i \in rows : TRUE].vote_type]

C17_Committing(s) ==
    /\ reqs[s] # Idle
    /\ reqs[s].op = "vote"
    /\ reqs[s].pc \in {"insert", "delete", "update"}
    /\ reqs'[s] # reqs[s]

\* C17: every (device, sighting) pair has at most one vote, and a POST vote
\* with type t, when it commits, moves the state of its pair from no vote to
\* t answering 'created', from t to no vote answering 'removed' with a null
\* vote_type, and from the other type to t answering 'updated'; the votes
\* of every other pair stay as they are.
C17_VoteStep(s) ==
    C17_Committing(s) =>
        LET r == reqs[s]
            before == C17_State(votes, r.device, r.sighting_id)
            after == C17_State(votes', r.device, r.sighting_id)
        IN  /\ reqs'[s].status = "200"
            /\ before = None =>
                  /\ reqs'[s].action = "created"
                  /\ reqs'[s].vote_type = [value |-> r.vote_type]
                  /\ after = [value |-> r.vote_type]
            /\ before = [value |-> r.vote_type] =>
                  /\ reqs'[s].action = "removed"
                  /\ reqs'[s].vote_type = None
                  /\ after = None
            /\ before \notin {None, [value |-> r.vote_type]} =>
                  /\ reqs'[s].action = "updated"
                  /\ reqs'[s].vote_type = [value |-> r.vote_type]
                  /\ after = [value |-> r.vote_type]
            /\ \A d \in Devices, i \in DOMAIN taps_sightings :
                  <<d, i>> # <<r.device, r.sighting_id>> =>
                      C17_State(votes', d, i) = C17_State(votes, d, i)

C17_Vote ==
    [][/\ \A s \in Slots : C17_VoteStep(s)
       /\ \A d \in Devices, i \in DOMAIN taps_sightings :
             Cardinality(VotesOf(votes', d, i)) <= 1]_vars

\* the finished call and the call kept earlier have the same lot, the same
\* timestamp and the same sighting history
C11_SameInputs ==
    /\ pc = "done"
    /\ observer.seen # None
    /\ observer.at_call = taps_sightings
    /\ observer.seen.parking_lot_id = req.parking_lot_id
    /\ observer.seen.timestamp = loc.timestamp
    /\ observer.seen.history = taps_sightings

C11_SameResult == C11_SameInputs => response = observer.seen.response

\* C11: no step of a predict call modifies the sighting history or the
\* lots, and two predict calls with the same lot, the same timestamp and the
\* same sighting history return identical results, whatever calls ran
\* before or between them.
C11_Stateless ==
    /\ []C11_SameResult
    /\ [][pc' # pc => /\ taps_sightings' = taps_sightings
                      /\ parking_lots' = parking_lots]_vars

\* the second of two such calls has returned the same result, over a
\* history with a sighting at its lot
C11_Witness ==
    /\ C11_SameInputs
    /\ response = observer.seen.response
    /\ \E i \in DOMAIN taps_sightings :
          taps_sightings[i].parking_lot_id = req.parking_lot_id

\* the call kept earlier ran with no sighting at the lot, and the finished
\* call runs for the same lot and timestamp T over that history plus
\* exactly one sighting, at the lot, 1 hour before T
C12_OneSightingAdded ==
    /\ pc = "done"
    /\ observer.seen # None
    /\ observer.at_call = taps_sightings
    /\ observer.seen.parking_lot_id = req.parking_lot_id
    /\ observer.seen.timestamp = loc.timestamp
    /\ \A i \in DOMAIN observer.seen.history :
          observer.seen.history[i].parking_lot_id # req.parking_lot_id
    /\ Len(taps_sightings) = Len(observer.seen.history) + 1
    /\ SubSeq(taps_sightings, 1, Len(observer.seen.history))
           = observer.seen.history
    /\ taps_sightings[Len(taps_sightings)].parking_lot_id
           = req.parking_lot_id
    /\ taps_sightings[Len(taps_sightings)].reported_at
           = loc.timestamp - 60

\* C12: for a lot and timestamp T with no sightings at the lot, adding
\* exactly one sighting at the lot 1 hour before T makes the
\* recent-sightings factor 0.95 and the probability strictly greater than
\* the probability of the zero-sighting baseline.
C12_RecentSighting ==
    C12_OneSightingAdded =>
        /\ response.factors.recent_sightings_factor = 95000
        /\ response.probability > observer.seen.response.probability

C12_Witness ==
    /\ C12_OneSightingAdded
    /\ response.factors.recent_sightings_factor = 95000
    /\ observer.seen.response.factors.recent_sightings_factor = 40000
    /\ response.probability > observer.seen.response.probability

\* C22: in the recent-sightings factor the 2-hour count is queried before
\* the 24-hour count, and when the 2-hour count is > 0 the factor is 0.95
\* and its 24-hour query is not issued.
C22_ShortCircuit ==
    /\ \A i \in DOMAIN queries :
          queries[i] = "recent_24h" =>
              /\ i > 1
              /\ queries[i - 1] = "recent_2h"
              /\ loc.very_recent = 0
    /\ (pc \in {"confidence_90d", "confidence_24h", "done"}
            /\ loc.very_recent > 0) =>
          /\ loc.recent_factor = 95000
          /\ \A i \in DOMAIN queries : queries[i] # "recent_24h"

\* a finished call that counted a sighting in the 2 hours
C22_Witness ==
    /\ pc = "done"
    /\ loc.very_recent > 0
    /\ response.factors.recent_sightings_factor = 95000
    /\ \A i \in DOMAIN queries : queries[i] # "recent_24h"

\* C23 as stated: a predict call for an existing lot issues at most four
\* sighting-count queries in total.
C23_AtMostFour == Len(queries) <= 4

\* C23, amended: a predict call for an existing lot issues at most five
\* sighting-count queries: the weekday-filtered 90-day count, the 2-hour
\* count, the 24-hour count of the recent factor only when the 2-hour count
\* is 0, and then the 90-day and the 24-hour count of the confidence.
C23_AtMostFive ==
    /\ Len(queries) <= 5
    /\ pc = "done" =>
          queries =
              IF loc.very_recent > 0
              THEN <<"historical_90d_dow", "recent_2h", "confidence_90d",
                     "confidence_24h">>
              ELSE <<"historical_90d_dow", "recent_2h", "recent_24h",
                     "confidence_90d", "confidence_24h">>

\* a finished call that issued five queries
C23_Witness ==
    /\ pc = "done"
    /\ Len(queries) = 5
    /\ loc.very_recent = 0

\* C28: in every response the emitted risk_level agrees with the emitted
\* probability, which is rounded to 3 decimals: LOW iff it is < 0.3, MEDIUM
\* iff it is at least 0.3 and < 0.6, HIGH iff it is >= 0.6.
C28_RiskMatchesEmitted ==
    probe.fn = "build_response" =>
        /\ probe.ret.risk_level = "LOW" <=> probe.ret.probability < 30000
        /\ probe.ret.risk_level = "MEDIUM" <=>
              (30000 <= probe.ret.probability /\ probe.ret.probability < 60000)
        /\ probe.ret.risk_level = "HIGH" <=> probe.ret.probability >= 60000

\* what a predict call for the lot and timestamp of the running one returns
\* when all its queries read the sighting history h
C21_Sequential(h) ==
    LET lot == req.parking_lot_id
        t == loc.timestamp
        recent == CountSince(h, lot, t - Hours(24))
    IN  BuildResponse(
            Combine([parking_lot |-> loc.parking_lot,
                     timestamp |-> t,
                     time_factor |-> loc.time_factor,
                     day_factor |-> loc.day_factor,
                     historical_factor |->
                         HistoricalFromCount(HistoricalQuery(h, lot, t)),
                     recent_factor |->
                         RecentFromCounts(CountSince(h, lot, t - Hours(2)),
                                          recent)])
            @@ [confidence |->
                    Confidence(CountSince(h, lot, t - Days(90)), recent)])

\* C21: a predict call that runs while sightings are inserted returns the
\* result of evaluating predict against one single state of the sighting
\* history, one of the states the history went through from the start of
\* the call to its end.
C21_SingleHistoryState ==
    pc = "done" =>
        \E n \in Len(observer.at_call)..Len(taps_sightings) :
            response = C21_Sequential(SubSeq(taps_sightings, 1, n))

\* the call kept earlier and the finished call have the same lot and
\* timestamp T, and the history of the finished call is the earlier history
\* plus sightings reported later than T
C27_LaterSightingAdded ==
    /\ pc = "done"
    /\ observer.seen # None
    /\ observer.at_call = taps_sightings
    /\ observer.seen.parking_lot_id = req.parking_lot_id
    /\ observer.seen.timestamp = loc.timestamp
    /\ Len(taps_sightings) > Len(observer.seen.history)
    /\ SubSeq(taps_sightings, 1, Len(observer.seen.history))
           = observer.seen.history
    /\ \A i \in DOMAIN taps_sightings :
          i > Len(observer.seen.history) =>
              taps_sightings[i].reported_at > loc.timestamp

\* C27: the prediction for timestamp T depends only on sightings reported
\* at or before T: adding a sighting whose reported_at is later than T
\* changes no factor, not the probability and not the confidence.
C27_OnlySightingsUpToT ==
    C27_LaterSightingAdded =>
        /\ response.factors = observer.seen.response.factors
        /\ response.probability = observer.seen.response.probability
        /\ response.confidence = observer.seen.response.confidence

\* the sightings of h at the lot, in order
C29_AtLot(h, lot) ==
    LET AtLot(r) == r.parking_lot_id = lot
    IN  SelectSeq(h, AtLot)

\* the call kept earlier and the finished call have the same lot L and
\* timestamp, and their histories contain the same sightings at L
C29_SameSightingsAtLot ==
    /\ pc = "done"
    /\ observer.seen # None
    /\ observer.at_call = taps_sightings
    /\ observer.seen.parking_lot_id = req.parking_lot_id
    /\ observer.seen.timestamp = loc.timestamp
    /\ C29_AtLot(taps_sightings, req.parking_lot_id)
           = C29_AtLot(observer.seen.history, req.parking_lot_id)

\* C29: for two sighting histories that contain the same sightings at lot L
\* and differ only in sightings at other lots, predict(L, T) returns the
\* same factors, probability, risk_level and confidence.
C29_OtherLotsIgnored ==
    C29_SameSightingsAtLot => response = observer.seen.response

\* the two histories differ, in sightings at another lot, and the lot has a
\* sighting of its own
C29_Witness ==
    /\ C29_SameSightingsAtLot
    /\ taps_sightings # observer.seen.history
    /\ C29_AtLot(taps_sightings, req.parking_lot_id) # <<>>
    /\ response = observer.seen.response

\* the call kept earlier and the finished call have the same lot and
\* timestamp, and the history of the finished call is the earlier history
\* plus sightings at the lot
C30_SightingsAdded ==
    /\ pc = "done"
    /\ observer.seen # None
    /\ observer.at_call = taps_sightings
    /\ observer.seen.parking_lot_id = req.parking_lot_id
    /\ observer.seen.timestamp = loc.timestamp
    /\ Len(taps_sightings) > Len(observer.seen.history)
    /\ SubSeq(taps_sightings, 1, Len(observer.seen.history))
           = observer.seen.history
    /\ \A i \in DOMAIN taps_sightings :
          i > Len(observer.seen.history) =>
              taps_sightings[i].parking_lot_id = req.parking_lot_id

C30_Rank(risk_level) ==
    CASE risk_level = "LOW" -> 0
      [] risk_level = "MEDIUM" -> 1
      [] risk_level = "HIGH" -> 2

\* C30: for a fixed lot and timestamp, adding a sighting at the lot to a
\* history never decreases the historical factor, the recent-sightings
\* factor, the probability or the confidence, and never lowers the risk
\* level.
C30_Monotone ==
    C30_SightingsAdded =>
        /\ response.factors.historical_factor
               >= observer.seen.response.factors.historical_factor
        /\ response.factors.recent_sightings_factor
               >= observer.seen.response.factors.recent_sightings_factor
        /\ response.probability >= observer.seen.response.probability
        /\ response.confidence >= observer.seen.response.confidence
        /\ C30_Rank(response.risk_level)
               >= C30_Rank(observer.seen.response.risk_level)

\* a sighting added at the lot has raised the probability and the
\* confidence
C30_Witness ==
    /\ C30_SightingsAdded
    /\ response.probability > observer.seen.response.probability
    /\ response.confidence > observer.seen.response.confidence

\* C24: a parking session receives at most one CHECKOUT_REMINDER, and a
\* reminder is only created for a session that at that moment is active,
\* was checked in at least parking_reminder_hours earlier and has
\* reminder_sent false.
C24_OneReminderWhenDue ==
    /\ \A k \in DOMAIN observer.reminders :
          LET e == observer.reminders[k]
          IN  /\ e.row.checked_out_at = None
              /\ e.row.checked_in_at <= e.at - Hours(parking_reminder_hours)
              /\ e.row.reminder_sent = FALSE
    /\ \A k, m \in DOMAIN observer.reminders :
          k # m => observer.reminders[k].session
                       # observer.reminders[m].session

\* session i is active and was checked in at least parking_reminder_hours
\* ago
C25_Due(i) ==
    /\ i \in DOMAIN parking_sessions
    /\ parking_sessions[i].checked_out_at = None
    /\ parking_sessions[i].checked_in_at
           <= now - Hours(parking_reminder_hours)

\* session i has its CHECKOUT_REMINDER and reminder_sent is true
C25_Reminded(i) ==
    /\ i \in DOMAIN parking_sessions
    /\ parking_sessions[i].reminder_sent
    /\ \E k \in DOMAIN observer.reminders :
          observer.reminders[k].session = i

C25_CheckedOut(i) ==
    /\ i \in DOMAIN parking_sessions
    /\ parking_sessions[i].checked_out_at # None

\* a failed send leaves the job in its loop with the other pending sessions
\* of the run
C25_FailureKeepsOthers ==
    (/\ reqs[JobSlot] # Idle
     /\ reqs'[JobSlot] # Idle
     /\ reqs'[JobSlot].errors > reqs[JobSlot].errors) =>
        /\ reqs'[JobSlot].pc = "loop"
        /\ reqs'[JobSlot].sessions = Tail(reqs[JobSlot].sessions)
        /\ reqs'[JobSlot].reminders_sent = reqs[JobSlot].reminders_sent

C26_Step ==
    /\ Len(parking_sessions') >= Len(parking_sessions)
    /\ \A i \in DOMAIN parking_sessions :
          /\ parking_sessions'[i].device_id = parking_sessions[i].device_id
          /\ parking_sessions[i].checked_out_at # None =>
                 parking_sessions'[i].checked_out_at
                     = parking_sessions[i].checked_out_at
    /\ \A i \in DOMAIN parking_sessions' :
          i > Len(parking_sessions) =>
              parking_sessions'[i].checked_out_at = None

\* C26: once checked_out_at of a session is set no operation clears or
\* changes it, a check-in creates a new session, and the number of
\* sessions of a device never decreases.
C26_CheckedOutForGood == [][C26_Step]_vars

====
